---- MODULE Spec2Model ----
(***************************************************************************)
(* The Zoho Books ETL scripts as a state machine.                          *)
(*                                                                         *)
(*   variant = "bills"     src/purchase_bills_etl.py  (Bills)              *)
(*   variant = "invoices"  src/final_script.py  (Invoices, then CreditNotes)*)
(*                                                                         *)
(* One behaviour is one invocation of main() (several under SpecReplay).   *)
(* The accounting API and the SQL server are the environment: every HTTP   *)
(* response and every failure of a SQL statement is a nondeterministic     *)
(* choice made at the call.                                                *)
(***************************************************************************)
EXTENDS Integers, Sequences, FiniteSets, TLC

VARIABLES
    variant,        \* which script runs
    pc,             \* position of main() / fetch_all_*
    exit_code,      \* process exit status; -1 while the process runs
    error,          \* the exception that ended the run ("none" if none did)
    access_token,   \* what get_new_access_token returned: "None" or "tok"
                    \* ("unset" before the call)
    conn,           \* "none" (never opened), "open", "closed"
    doctype,        \* document type being walked: "bill", "invoice", "creditnote"
    page,           \* params["page"] / page
    docs,           \* the summaries (ids) of the page being processed
    page_ctx,       \* data.get("page_context") of that page (bills)
    idx,            \* index in docs of the summary being processed
    full_doc,       \* full_bill / full_invoice / full_cn of that summary
    total_inserted, \* fetch_all_bills' counter
    committed,      \* the durable content of the tables
    pending,        \* the content as the open connection sees it (uncommitted included)
    sql,            \* the line-item statements executed for the current summary:
                    \* rows deleted, INSERTs executed
    fetches,        \* per summary of the current page: detail requests issued
    durable,        \* how far the writes of the current summary got in this run:
                    \* "none", "parent" (insert_bill / insert_invoice returned),
                    \* "all" (insert_line_items returned too)
    api,            \* the server's data when it is pinned (SpecReplay), else unpinned
    run,            \* number of the current invocation
    previous,       \* exit status and committed store of the previous invocation
    write_failed,   \* some SQL statement raised in some invocation so far
    log,            \* the list requests of the current walk, in order: the page
                    \* asked for and, per summary it returned, the number of
                    \* detail fetches issued
    last_list       \* shape of the last list response: "none" (no request yet),
                    \* "failed", "nokey" (a JSON object without the collection
                    \* key, status 200 and code 0), "nokey_error" (the same with
                    \* another status or code), "nonobject" (a JSON array, read
                    \* without raising), "empty", "page"

vars == <<variant, pc, exit_code, error, access_token, conn, doctype, page, docs,
          page_ctx, idx, full_doc, total_inserted, committed, pending, sql, fetches,
          durable, api, run, previous, write_failed, log, last_list>>

-----------------------------------------------------------------------------
(* Bounds of the model *)

MaxDocs == 2        \* document ids 1..MaxDocs
MaxPage == 1        \* the server holds documents on pages 1..MaxPage only
MaxPageLen == 2     \* summaries on one list page
MaxItems == 2       \* line items of one document
MaxRuns == 2        \* invocations under SpecReplay
MaxWalkPages == 2   \* pages of the server under SpecWalk

Ids == 1..MaxDocs
DocTypes == {"bill", "invoice", "creditnote"}

-----------------------------------------------------------------------------
(* Values *)

\* An optional value: a dict key that is missing (or null), or present.
Absent == [has |-> FALSE]
Some(v) == [has |-> TRUE, v |-> v]

\* line_items of a detail: the new items of a document are 1..n.
ItemLists == {[i \in 1..n |-> i] : n \in 0..MaxItems}
\* The line items an earlier run stored for a document.
StaleItems == <<0>>

\* An address of a detail record: the key is missing, the value is null, the
\* value is an object without "state", or an object whose state is "KA".
AddrKinds == {"missing", "null", "nostate", "KA"}

\* The two addresses of one detail record: at most one of them is unusual.
AddrPairs == {a \in AddrKinds \X AddrKinds : a[1] = "KA" \/ a[2] = "KA"}

Docs(id) ==
    {[id |-> id, billing_address |-> a[1], shipping_address |-> a[2], line_items |-> l] :
        a \in AddrPairs, l \in {Absent} \cup {Some(l) : l \in ItemLists}}

NoDoc == [has |-> FALSE]

\* HTTP responses.  A request either fails in transport (requests raises) or
\* returns a status and a body; a body is not JSON, JSON that is not an object
\* (an array), or a JSON object.
TransportFailure == [transport |-> "failed"]
Http(st, b) == [transport |-> "ok", status |-> st, body |-> b]
Unparsable == [json |-> "unparsable"]
NonObject == [json |-> "nonobject"]
Statuses == {200, 500}
Codes == {Absent, Some(0), Some(57)}

\* ---- token endpoint ----
\* (api_domain is left out: the bills script defaults it to the India host when
\* the response has none, so `not api_domain` never decides anything.)
TokenBodies ==
    {Unparsable, NonObject} \cup
    [json : {"object"}, access_token : {Absent, Some("tok")}]
TokenResponses == {TransportFailure} \cup {Http(st, b) : st \in Statuses, b \in TokenBodies}

\* ---- detail endpoint ----
DetailBodies(id) ==
    {Unparsable, NonObject} \cup
    [json : {"object"}, code : Codes, doc : {Absent} \cup {Some(d) : d \in Docs(id)}]
DetailResponses(id) ==
    {TransportFailure} \cup {Http(st, b) : st \in Statuses, b \in DetailBodies(id)}

\* ---- list endpoint ----
\* One list page: summaries of distinct documents.
PageLists ==
    {l \in UNION {[1..n -> Ids] : n \in 0..MaxPageLen} :
        \A i, j \in DOMAIN l : l[i] = l[j] => i = j}
PageContexts(p) ==
    {Absent} \cup
    {Some([has_more_page |-> h, page |-> q]) : h \in BOOLEAN, q \in {Absent, Some(p)}}
\* What the server may answer to a list request for page p: past its last page
\* the collection is empty (or missing, or the request fails).
ListBodies(p) ==
    {Unparsable, NonObject} \cup
    [json : {"object"}, code : Codes,
     coll : {Absent} \cup {Some(l) : l \in IF p > MaxPage THEN {<<>>} ELSE PageLists},
     page_context : PageContexts(p)]
ListResponses(p) ==
    {TransportFailure} \cup {Http(st, b) : st \in Statuses, b \in ListBodies(p)}

-----------------------------------------------------------------------------
(* The store *)

\* The row an earlier run stored for a document.
StaleRow == [billing_state |-> "TN", shipping_state |-> "TN"]

EmptyStore ==
    [parent |-> [t \in DocTypes |-> [i \in Ids |-> <<>>]],
     items  |-> [t \in DocTypes |-> [i \in Ids |-> <<>>]]]

\* The store left by earlier runs: the documents `old` of the tables `ts`,
\* with stale content.
StaleStore(ts, old) ==
    [parent |-> [t \in DocTypes |->
                    [i \in Ids |-> IF t \in ts /\ i \in old THEN <<StaleRow>> ELSE <<>>]],
     items  |-> [t \in DocTypes |->
                    [i \in Ids |-> IF t \in ts /\ i \in old THEN StaleItems ELSE <<>>]]]

-----------------------------------------------------------------------------
(* Pure functions of the scripts *)

\* j.get("code", 0)
GetCode(j) == IF j.code.has THEN j.code.v ELSE 0

Raised(why) == [raised |-> TRUE, why |-> why]
Returned(v) == [raised |-> FALSE, v |-> v]

\* purchase_bills_etl.get_new_access_token: the POST is outside the try, and so
\* are the j.get calls.
get_new_access_token_bills(resp) ==
    IF resp.transport = "failed" THEN Raised("token_transport")
    ELSE IF resp.body.json = "unparsable" THEN Returned("None")
    ELSE IF resp.body.json = "nonobject" THEN Raised("token_nonobject")
    ELSE IF ~resp.body.access_token.has THEN Returned("None")
    ELSE Returned(resp.body.access_token.v)

\* final_script.get_new_access_token: the POST is outside the try; json() and
\* json_data.get are inside it.
get_new_access_token_inv(resp) ==
    IF resp.transport = "failed" THEN Raised("token_transport")
    ELSE IF resp.body.json \in {"unparsable", "nonobject"} THEN Returned("None")
    ELSE IF ~resp.body.access_token.has THEN Returned("None")
    ELSE Returned(resp.body.access_token.v)

\* purchase_bills_etl.fetch_bill_detail
fetch_bill_detail(resp) ==
    IF resp.transport = "failed" THEN Raised("detail_transport")
    ELSE IF resp.status # 200 THEN Returned(NoDoc)
    ELSE IF resp.body.json = "unparsable" THEN Returned(NoDoc)
    ELSE IF resp.body.json = "nonobject" THEN Raised("detail_nonobject")
    ELSE IF GetCode(resp.body) # 0 THEN Returned(NoDoc)
    ELSE Returned(resp.body.doc)

\* final_script.fetch_invoice_detail and fetch_credit_note_detail:
\* requests.get(...), then response.json().get(key), nothing guarded.
fetch_invoice_detail(resp) ==
    IF resp.transport = "failed" THEN Raised("detail_transport")
    ELSE IF resp.body.json = "unparsable" THEN Raised("detail_unparsable")
    ELSE IF resp.body.json = "nonobject" THEN Raised("detail_nonobject")
    ELSE Returned(resp.body.doc)

\* (bill.get('billing_address') or {}).get('state')
bill_state(addr) ==
    LET obj == IF addr \in {"missing", "null"} THEN "nostate" ELSE addr
    IN  IF obj = "nostate" THEN "NULL" ELSE obj

\* inv.get('billing_address', {}).get('state'): the default covers a missing
\* key only, a null value has no .get
invoice_state(addr) ==
    LET obj == IF addr = "missing" THEN "nostate" ELSE addr
    IN  IF obj = "null" THEN "RAISE"
        ELSE IF obj = "nostate" THEN "NULL" ELSE obj

\* The parameters of the MERGE of insert_bill
bill_row(bill) ==
    [billing_state |-> bill_state(bill.billing_address),
     shipping_state |-> bill_state(bill.shipping_address)]

\* The parameters of the INSERT of insert_invoice / insert_credit_note
invoice_row(inv) ==
    [billing_state |-> invoice_state(inv.billing_address),
     shipping_state |-> invoice_state(inv.shipping_address)]

\* (mutant) the guard is dropped: whatever the detail fetch returned is written
truthy_always(doc) == TRUE

\* `if full_bill:` / `if full_invoice:` / `if full_cn:`
truthy(doc) == doc.has

\* full_bill.get("line_items") or []
bill_line_items(bill) == IF bill.line_items.has THEN bill.line_items.v ELSE <<>>

\* (mutant) a plain INSERT in place of the MERGE
merge_bill_insert_only(store, id, row) ==
    [store EXCEPT !.parent["bill"][id] = Append(@, row)]

\* MERGE Bills ... ON target.bill_id = source.bill_id
\*   WHEN MATCHED THEN UPDATE ... WHEN NOT MATCHED THEN INSERT ...
merge_bill(store, id, row) ==
    [store EXCEPT !.parent["bill"][id] =
        IF Len(@) = 0 THEN <<row>> ELSE [k \in 1..Len(@) |-> row]]

\* (mutant) insert_bill leaves the commit to insert_line_items
insert_bill_no_commit(store, bill) ==
    [store |-> merge_bill(store, bill.id, bill_row(bill)), commit |-> FALSE]

\* insert_bill: the MERGE, then cursor.connection.commit()
insert_bill(store, bill) ==
    [store |-> merge_bill(store, bill.id, bill_row(bill)), commit |-> TRUE]

\* INSERT INTO Invoices / CreditNotes (no key, no existence check)
insert_parent(store, t, id, row) ==
    [store EXCEPT !.parent[t][id] = Append(@, row)]

\* insert_invoice / insert_credit_note: the INSERT, then cursor.connection.commit()
insert_invoice(store, t, inv) ==
    [store |-> insert_parent(store, t, inv.id, invoice_row(inv)), commit |-> TRUE]

\* No line-item statement executed
NoSql == [deleted |-> 0, inserted |-> 0]

\* DELETE FROM BillLineItems WHERE bill_id = ?
delete_line_items(store, t, id) ==
    [store EXCEPT !.items[t][id] = <<>>]

\* the first k INSERTs of the loop over line_items
insert_items(store, t, id, items, k) ==
    [store EXCEPT !.items[t][id] = @ \o SubSeq(items, 1, k)]


\* (mutant) data["bills"] in place of data.get("bills", []): a missing key raises
list_bills_nokey_raises(resp) ==
    IF resp.transport = "failed" THEN Raised("list_transport")
    ELSE IF resp.status # 200 THEN Raised("list_status")
    ELSE IF resp.body.json = "unparsable" THEN Raised("list_unparsable")
    ELSE IF resp.body.json = "nonobject" THEN Raised("list_nonobject")
    ELSE IF GetCode(resp.body) # 0 THEN Raised("list_code")
    ELSE IF ~resp.body.coll.has THEN Raised("list_nokey")
    ELSE Returned([docs |-> resp.body.coll.v, page_context |-> resp.body.page_context])

\* The list request of fetch_all_bills, up to `bills = data.get("bills", [])`:
\* raise_for_status/json() re-raise, a non-zero code raises RuntimeError, a
\* missing key reads as the empty list.
list_bills(resp) ==
    IF resp.transport = "failed" THEN Raised("list_transport")
    ELSE IF resp.status # 200 THEN Raised("list_status")
    ELSE IF resp.body.json = "unparsable" THEN Raised("list_unparsable")
    ELSE IF resp.body.json = "nonobject" THEN Raised("list_nonobject")
    ELSE IF GetCode(resp.body) # 0 THEN Raised("list_code")
    ELSE Returned([docs |-> IF resp.body.coll.has THEN resp.body.coll.v ELSE <<>>,
                   page_context |-> resp.body.page_context])

\* (mutant) the early return of final_script's insert_line_items, taken before
\* the DELETE
insert_line_items_bills_skip_empty(store, bill_id, line_items, k) ==
    IF line_items = <<>>
    THEN [store |-> store, commit |-> FALSE, raised |-> FALSE, sql |-> NoSql]
    ELSE IF k = 0
    THEN [store |-> store, commit |-> FALSE, raised |-> TRUE, sql |-> NoSql]
    ELSE LET deleted == delete_line_items(store, "bill", bill_id)
             done == insert_items(deleted, "bill", bill_id, line_items, k - 1)
             ran == [deleted |-> Len(store.items["bill"][bill_id]), inserted |-> k - 1]
         IN  IF k = Len(line_items) + 1
             THEN [store |-> done, commit |-> TRUE, raised |-> FALSE, sql |-> ran]
             ELSE [store |-> done, commit |-> FALSE, raised |-> TRUE, sql |-> ran]

\* insert_line_items of purchase_bills_etl: DELETE, then one INSERT per item,
\* then commit.  k is the number of statements that execute before one raises
\* (all of them, Len(line_items) + 1, when none does).
insert_line_items_bills(store, bill_id, line_items, k) ==
    IF k = 0
    THEN [store |-> store, commit |-> FALSE, raised |-> TRUE, sql |-> NoSql]
    ELSE LET deleted == delete_line_items(store, "bill", bill_id)
             done == insert_items(deleted, "bill", bill_id, line_items, k - 1)
             ran == [deleted |-> Len(store.items["bill"][bill_id]), inserted |-> k - 1]
         IN  IF k = Len(line_items) + 1
             THEN [store |-> done, commit |-> TRUE, raised |-> FALSE, sql |-> ran]
             ELSE [store |-> done, commit |-> FALSE, raised |-> TRUE, sql |-> ran]

\* (mutant) data["invoices"] read without the `not in` check: a missing key raises
list_invoices_nokey_raises(resp) ==
    IF resp.transport = "failed" THEN Raised("list_transport")
    ELSE IF resp.body.json = "unparsable" THEN Raised("list_unparsable")
    ELSE IF resp.body.json = "nonobject" THEN Returned(<<>>)
    ELSE IF ~resp.body.coll.has THEN Raised("list_nokey")
    ELSE Returned(resp.body.coll.v)

\* The list request of fetch_all_invoices / fetch_all_credit_notes, up to
\* `if not invoices: break`: nothing is guarded, the status is not looked at,
\* and a body without the collection key ends the walk like an empty page.
list_invoices(resp) ==
    IF resp.transport = "failed" THEN Raised("list_transport")
    ELSE IF resp.body.json = "unparsable" THEN Raised("list_unparsable")
    ELSE IF resp.body.json = "nonobject" THEN Returned(<<>>)
    ELSE IF ~resp.body.coll.has THEN Returned(<<>>)
    ELSE Returned(resp.body.coll.v)

\* insert_line_items / insert_credit_note_line_items of final_script: nothing
\* at all for a missing or empty list, else one INSERT per item, then commit.
\* k is the number of INSERTs that execute before one raises.
insert_line_items_inv(store, t, id, line_items, k) ==
    IF ~line_items.has \/ line_items.v = <<>>
    THEN [store |-> store, commit |-> FALSE, raised |-> FALSE, sql |-> NoSql]
    ELSE LET done == insert_items(store, t, id, line_items.v, k)
             ran == [deleted |-> 0, inserted |-> k]
         IN  IF k = Len(line_items.v)
             THEN [store |-> done, commit |-> TRUE, raised |-> FALSE, sql |-> ran]
             ELSE [store |-> done, commit |-> FALSE, raised |-> TRUE, sql |-> ran]

\* page_ctx = data.get("page_context") or {}; page_ctx.get("has_more_page")
has_more_page(ctx) == ctx.has /\ ctx.v.has_more_page

\* (mutant) the page the server reported is asked for again
next_page_same(ctx, local) ==
    IF ctx.has /\ ctx.v.page.has THEN ctx.v.page.v ELSE local

\* (page_ctx.get("page") or params["page"]) + 1
next_page(ctx, local) ==
    (IF ctx.has /\ ctx.v.page.has THEN ctx.v.page.v ELSE local) + 1

\* What the shape of a list response is called in last_list.
ListShape(resp, raised) ==
    IF resp.transport = "ok" /\ resp.body.json = "object"
    THEN IF ~resp.body.coll.has
         THEN IF resp.status = 200 /\ GetCode(resp.body) = 0
              THEN "nokey" ELSE "nokey_error"
         ELSE IF raised THEN "failed"
         ELSE IF resp.body.coll.v = <<>> THEN "empty" ELSE "page"
    ELSE IF raised THEN "failed" ELSE "nonobject"

-----------------------------------------------------------------------------
(* The server, pinned or not *)

Unpinned == [pinned |-> FALSE]
NoPrevious == [exit_code |-> -1, store |-> EmptyStore]
ListResponsesAt(p) ==
    IF api.pinned /\ p \in DOMAIN api.list THEN {api.list[p]} ELSE ListResponses(p)
DetailResponsesFor(id) ==
    IF api.pinned THEN {api.detail[id]} ELSE DetailResponses(id)

-----------------------------------------------------------------------------
(* Steps shared by the two scripts.  A SQL statement may raise; a commit is *)
(* taken to succeed.                                                       *)

env == <<variant, api, run, previous>>
walk == <<doctype, page, docs, page_ctx, idx, full_doc, total_inserted, sql,
          fetches, durable, log, last_list>>

\* The process ends: the connection goes away and with it what was not committed.
Exit(code, err) ==
    /\ pc' = "exit"
    /\ exit_code' = code
    /\ error' = err
    /\ conn' = IF conn = "open" THEN "closed" ELSE conn
    /\ pending' = committed
    /\ UNCHANGED committed

\* An exception reaches main's except clause: purchase_bills_etl logs, closes
\* the connection and calls sys.exit(1); final_script logs and returns.
RunError(err) == Exit(IF variant = "bills" THEN 1 ELSE 0, err)

\* An exception outside main's try: the interpreter prints it and exits 1.
Uncaught(err) == Exit(1, err)

Goto(l) ==
    /\ pc' = l
    /\ UNCHANGED <<exit_code, error, conn>>

\* The summary being processed
CurId == docs[idx]

-----------------------------------------------------------------------------
(* purchase_bills_etl.py *)

\* main: the check of the required environment variables
main_config_bills ==
    /\ pc = "config"
    /\ \E ok \in BOOLEAN :
         IF ok THEN Goto("refresh") /\ UNCHANGED <<committed, pending>>
         ELSE Exit(2, "none")
    /\ UNCHANGED <<env, walk, access_token, write_failed>>

\* main: access_token, api_domain = get_new_access_token()
main_refresh_bills ==
    /\ pc = "refresh" /\ variant = "bills"
    /\ \E resp \in TokenResponses :
         LET r == get_new_access_token_bills(resp) IN
         IF r.raised THEN Uncaught(r.why) /\ UNCHANGED access_token
         ELSE /\ access_token' = r.v
              /\ IF r.v = "None" THEN Exit(2, "none")
                 ELSE Goto("connect") /\ UNCHANGED <<committed, pending>>
    /\ UNCHANGED <<env, walk, write_failed>>

\* main: conn = connect_to_sql(); cursor = conn.cursor()
main_connect_bills ==
    /\ pc = "connect" /\ variant = "bills"
    /\ \E ok \in BOOLEAN :
         IF ok THEN /\ pc' = "create_tables" /\ conn' = "open"
                    /\ UNCHANGED <<exit_code, error, committed, pending>>
         ELSE RunError("connect")
    /\ UNCHANGED <<env, walk, access_token, write_failed>>

\* main: create_tables(cursor)
main_create_tables_bills ==
    /\ pc = "create_tables" /\ variant = "bills"
    /\ \E ok \in BOOLEAN :
         IF ok THEN Goto("list") /\ committed' = pending /\ UNCHANGED pending
         ELSE RunError("schema")
    /\ UNCHANGED <<env, walk, access_token, write_failed>>

\* fetch_all_bills: the list request at the top of the while loop
fetch_all_bills_list ==
    /\ pc = "list" /\ variant = "bills"
    /\ \E resp \in ListResponsesAt(page) :
         LET r == list_bills(resp) IN
         IF r.raised
         THEN /\ RunError(r.why)
              /\ last_list' = ListShape(resp, TRUE)
              /\ log' = Append(log, [page |-> page, fetches |-> <<>>])
              /\ UNCHANGED <<docs, page_ctx, idx, fetches>>
         ELSE /\ docs' = r.v.docs
              /\ page_ctx' = r.v.page_context
              /\ fetches' = [i \in 1..Len(r.v.docs) |-> 0]
              /\ log' = Append(log, [page |-> page,
                                     fetches |-> [i \in 1..Len(r.v.docs) |-> 0]])
              /\ last_list' = ListShape(resp, FALSE)
              /\ IF r.v.docs = <<>>
                 THEN idx' = 0 /\ Goto("close")
                 ELSE idx' = 1 /\ Goto("detail")
              /\ UNCHANGED <<committed, pending>>
    /\ full_doc' = NoDoc
    /\ durable' = "none"
    /\ sql' = NoSql
    /\ UNCHANGED <<env, doctype, page, total_inserted, access_token, write_failed>>

\* fetch_all_bills: full_bill = fetch_bill_detail(...); if full_bill:
fetch_all_bills_detail ==
    /\ pc = "detail" /\ variant = "bills"
    /\ fetches' = [fetches EXCEPT ![idx] = @ + 1]
    /\ log' = [log EXCEPT ![Len(log)].fetches[idx] = @ + 1]
    /\ \E resp \in DetailResponsesFor(CurId) :
         LET r == fetch_bill_detail(resp) IN
         IF r.raised THEN RunError(r.why) /\ UNCHANGED full_doc
         ELSE /\ full_doc' = r.v
              /\ Goto(IF truthy(r.v) THEN "insert_doc" ELSE "sleep")
              /\ UNCHANGED <<committed, pending>>
    /\ UNCHANGED <<env, doctype, page, docs, page_ctx, idx, total_inserted, sql,
                   durable, last_list, access_token, write_failed>>

\* fetch_all_bills: insert_bill(cursor, full_bill), the MERGE and its commit
fetch_all_bills_insert_bill ==
    /\ pc = "insert_doc" /\ variant = "bills"
    /\ \E ok \in BOOLEAN :
         IF ok
         THEN LET r == insert_bill(pending, full_doc.v) IN
              /\ pending' = r.store
              /\ committed' = IF r.commit THEN r.store ELSE committed
              /\ durable' = IF r.commit THEN "parent" ELSE durable
              /\ Goto("insert_items")
              /\ UNCHANGED write_failed
         ELSE /\ write_failed' = TRUE
              /\ Goto("sleep")
              /\ UNCHANGED <<committed, pending, durable>>
    /\ UNCHANGED <<env, doctype, page, docs, page_ctx, idx, full_doc,
                   total_inserted, sql, fetches, log, last_list, access_token>>

\* fetch_all_bills: line_items = ...; insert_line_items(cursor, bill_id,
\* line_items); total_inserted += 1, inside the try
fetch_all_bills_insert_line_items ==
    /\ pc = "insert_items" /\ variant = "bills"
    /\ LET line_items == bill_line_items(full_doc.v) IN
       \E k \in 0..(Len(line_items) + 1) :
         LET r == insert_line_items_bills(pending, CurId, line_items, k) IN
         /\ pending' = r.store
         /\ committed' = IF r.commit THEN r.store ELSE committed
         /\ durable' = IF r.raised THEN durable ELSE "all"
         /\ total_inserted' = IF r.raised THEN total_inserted ELSE total_inserted + 1
         /\ write_failed' = (write_failed \/ r.raised)
         /\ sql' = r.sql
    /\ Goto("sleep")
    /\ UNCHANGED <<env, doctype, page, docs, page_ctx, idx, full_doc, fetches,
                   log, last_list, access_token>>

\* fetch_all_bills: time.sleep, then the next summary, or after the last one
\* the page_context decides between the next page and the end of the walk
fetch_all_bills_sleep ==
    /\ pc = "sleep" /\ variant = "bills"
    /\ IF idx < Len(docs)
       THEN /\ idx' = idx + 1
            /\ Goto("detail")
            /\ UNCHANGED page
       ELSE /\ UNCHANGED idx
            /\ IF has_more_page(page_ctx)
               THEN page' = next_page(page_ctx, page) /\ Goto("list")
               ELSE UNCHANGED page /\ Goto("close")
    /\ full_doc' = NoDoc
    /\ durable' = "none"
    /\ sql' = NoSql
    /\ UNCHANGED <<env, doctype, docs, page_ctx, total_inserted, fetches, log,
                   last_list, access_token, write_failed, committed, pending>>

\* main: cursor.close(); conn.close(); the job is logged as completed
main_close_bills ==
    /\ pc = "close" /\ variant = "bills"
    /\ Exit(0, "none")
    /\ UNCHANGED <<env, walk, access_token, write_failed>>

-----------------------------------------------------------------------------
(* final_script.py: the invoices are walked first, then the credit notes,  *)
(* by two copies of the same code.                                         *)

\* main: token = get_new_access_token(); if not token: return
main_refresh_inv ==
    /\ pc = "refresh" /\ variant = "invoices"
    /\ \E resp \in TokenResponses :
         LET r == get_new_access_token_inv(resp) IN
         IF r.raised THEN Uncaught(r.why) /\ UNCHANGED access_token
         ELSE /\ access_token' = r.v
              /\ IF r.v = "None" THEN Exit(0, "none")
                 ELSE Goto("connect") /\ UNCHANGED <<committed, pending>>
    /\ UNCHANGED <<env, walk, write_failed>>

\* main: conn = connect_to_sql(); cursor = conn.cursor()
main_connect_inv ==
    /\ pc = "connect" /\ variant = "invoices"
    /\ \E ok \in BOOLEAN :
         IF ok THEN /\ pc' = "create_tables" /\ conn' = "open"
                    /\ UNCHANGED <<exit_code, error, committed, pending>>
         ELSE RunError("connect")
    /\ UNCHANGED <<env, walk, access_token, write_failed>>

\* main: create_tables(cursor)
main_create_tables_inv ==
    /\ pc = "create_tables" /\ variant = "invoices"
    /\ \E ok \in BOOLEAN :
         IF ok THEN Goto("list") /\ committed' = pending /\ UNCHANGED pending
         ELSE RunError("schema")
    /\ UNCHANGED <<env, walk, access_token, write_failed>>

\* fetch_all_invoices / fetch_all_credit_notes: the list request at the top
\* of the while loop; a break returns to main, which goes on with the credit
\* notes after the invoices and closes after the credit notes
fetch_all_invoices_list ==
    /\ pc = "list" /\ variant = "invoices"
    /\ \E resp \in ListResponsesAt(page) :
         LET r == list_invoices(resp) IN
         IF r.raised
         THEN /\ RunError(r.why)
              /\ last_list' = ListShape(resp, TRUE)
              /\ log' = Append(log, [page |-> page, fetches |-> <<>>])
              /\ UNCHANGED <<docs, idx, fetches, doctype, page>>
         ELSE /\ docs' = r.v
              /\ fetches' = [i \in 1..Len(r.v) |-> 0]
              /\ last_list' = ListShape(resp, FALSE)
              /\ IF r.v # <<>>
                 THEN /\ idx' = 1 /\ Goto("detail") /\ UNCHANGED <<doctype, page>>
                      /\ log' = Append(log, [page |-> page,
                                             fetches |-> [i \in 1..Len(r.v) |-> 0]])
                 ELSE /\ idx' = 0
                      /\ IF doctype = "invoice"
                         THEN /\ doctype' = "creditnote" /\ page' = 1 /\ Goto("list")
                              /\ log' = <<>>
                         ELSE /\ UNCHANGED <<doctype, page>> /\ Goto("close")
                              /\ log' = Append(log, [page |-> page, fetches |-> <<>>])
              /\ UNCHANGED <<committed, pending>>
    /\ full_doc' = NoDoc
    /\ durable' = "none"
    /\ sql' = NoSql
    /\ UNCHANGED <<env, page_ctx, total_inserted, access_token, write_failed>>

\* fetch_all_invoices: full_invoice = fetch_invoice_detail(...); if full_invoice:
fetch_all_invoices_detail ==
    /\ pc = "detail" /\ variant = "invoices"
    /\ fetches' = [fetches EXCEPT ![idx] = @ + 1]
    /\ log' = [log EXCEPT ![Len(log)].fetches[idx] = @ + 1]
    /\ \E resp \in DetailResponsesFor(CurId) :
         LET r == fetch_invoice_detail(resp) IN
         IF r.raised THEN RunError(r.why) /\ UNCHANGED full_doc
         ELSE /\ full_doc' = r.v
              /\ Goto(IF truthy(r.v) THEN "insert_doc" ELSE "sleep")
              /\ UNCHANGED <<committed, pending>>
    /\ UNCHANGED <<env, doctype, page, docs, page_ctx, idx, total_inserted, sql,
                   durable, last_list, access_token, write_failed>>

\* fetch_all_invoices: insert_invoice(cursor, full_invoice) (insert_credit_note):
\* the parameters are built first, then the INSERT runs and is committed;
\* nothing catches what either raises before main does
fetch_all_invoices_insert_invoice ==
    /\ pc = "insert_doc" /\ variant = "invoices"
    /\ LET row == invoice_row(full_doc.v) IN
       IF "RAISE" \in {row.billing_state, row.shipping_state}
       THEN RunError("mapping") /\ UNCHANGED <<durable, write_failed>>
       ELSE \E ok \in BOOLEAN :
              IF ok
              THEN LET r == insert_invoice(pending, doctype, full_doc.v) IN
                   /\ pending' = r.store
                   /\ committed' = IF r.commit THEN r.store ELSE committed
                   /\ durable' = IF r.commit THEN "parent" ELSE durable
                   /\ Goto("insert_items")
                   /\ UNCHANGED write_failed
              ELSE /\ write_failed' = TRUE
                   /\ RunError("write")
                   /\ UNCHANGED durable
    /\ UNCHANGED <<env, doctype, page, docs, page_ctx, idx, full_doc,
                   total_inserted, sql, fetches, log, last_list, access_token>>

\* fetch_all_invoices: line_items = full_invoice.get("line_items");
\* insert_line_items(cursor, invoice_id, line_items)
fetch_all_invoices_insert_line_items ==
    /\ pc = "insert_items" /\ variant = "invoices"
    /\ LET line_items == full_doc.v.line_items
           n == IF line_items.has THEN Len(line_items.v) ELSE 0
       IN
       \E k \in 0..n :
         LET r == insert_line_items_inv(pending, doctype, CurId, line_items, k) IN
         /\ sql' = r.sql
         /\ IF r.raised
            THEN /\ write_failed' = TRUE
                 /\ RunError("write")
                 /\ UNCHANGED durable
            ELSE /\ pending' = r.store
                 /\ committed' = IF r.commit THEN r.store ELSE committed
                 /\ durable' = "all"
                 /\ Goto("sleep")
                 /\ UNCHANGED write_failed
    /\ UNCHANGED <<env, doctype, page, docs, page_ctx, idx, full_doc, fetches,
                   total_inserted, log, last_list, access_token>>

\* fetch_all_invoices: time.sleep, then the next summary, or page += 1
fetch_all_invoices_sleep ==
    /\ pc = "sleep" /\ variant = "invoices"
    /\ IF idx < Len(docs)
       THEN idx' = idx + 1 /\ Goto("detail") /\ UNCHANGED page
       ELSE UNCHANGED idx /\ page' = page + 1 /\ Goto("list")
    /\ full_doc' = NoDoc
    /\ durable' = "none"
    /\ sql' = NoSql
    /\ UNCHANGED <<env, doctype, docs, page_ctx, total_inserted, fetches, log,
                   last_list, access_token, write_failed, committed, pending>>

\* main: cursor.close(); conn.close(); the job is logged as completed
main_close_inv ==
    /\ pc = "close" /\ variant = "invoices"
    /\ Exit(0, "none")
    /\ UNCHANGED <<env, walk, access_token, write_failed>>

-----------------------------------------------------------------------------
(* The specification *)

\* What earlier runs may have left in the tables of a script when it starts.
InitialStores(v) ==
    IF v = "bills" THEN {StaleStore({"bill"}, old) : old \in SUBSET Ids}
    ELSE {EmptyStore, StaleStore({"invoice"}, Ids)}

Start(v, a) ==
    /\ variant = v
    /\ pc = IF variant = "bills" THEN "config" ELSE "refresh"
    /\ exit_code = -1
    /\ error = "none"
    /\ access_token = "unset"
    /\ conn = "none"
    /\ doctype = IF variant = "bills" THEN "bill" ELSE "invoice"
    /\ page = 1
    /\ docs = <<>>
    /\ page_ctx = Absent
    /\ idx = 0
    /\ full_doc = NoDoc
    /\ total_inserted = 0
    /\ committed \in InitialStores(variant)
    /\ pending = committed
    /\ sql = NoSql
    /\ fetches = <<>>
    /\ durable = "none"
    /\ api = a
    /\ run = 1
    /\ previous = NoPrevious
    /\ write_failed = FALSE
    /\ log = <<>>
    /\ last_list = "none"

Init == \E v \in {"bills", "invoices"} : Start(v, Unpinned)

Next ==
    \/ main_config_bills
    \/ main_refresh_bills
    \/ main_connect_bills
    \/ main_create_tables_bills
    \/ fetch_all_bills_list
    \/ fetch_all_bills_detail
    \/ fetch_all_bills_insert_bill
    \/ fetch_all_bills_insert_line_items
    \/ fetch_all_bills_sleep
    \/ main_close_bills
    \/ main_refresh_inv
    \/ main_connect_inv
    \/ main_create_tables_inv
    \/ fetch_all_invoices_list
    \/ fetch_all_invoices_detail
    \/ fetch_all_invoices_insert_invoice
    \/ fetch_all_invoices_insert_line_items
    \/ fetch_all_invoices_sleep
    \/ main_close_inv

Spec == Init /\ [][Next]_vars


-----------------------------------------------------------------------------
(* Replay: the bills script is invoked again and again against a server    *)
(* that answers every request the same way each time.                      *)

ReplayDocs(id) ==
    {d \in Docs(id) : d.billing_address = "missing" /\ d.shipping_address = "KA"}
ReplayDetails(id) ==
    {Http(500, Unparsable)} \cup
    {Http(200, [json |-> "object", code |-> Some(0), doc |-> d]) :
        d \in {Absent} \cup {Some(x) : x \in ReplayDocs(id)}}
ReplayLists(p) ==
    {Http(200, [json |-> "object", code |-> Some(0), coll |-> Some(l), page_context |-> c]) :
        l \in IF p > MaxPage THEN {<<>>} ELSE PageLists,
        c \in {Absent, Some([has_more_page |-> TRUE, page |-> Some(p)])}}
PinnedApis ==
    {[pinned |-> TRUE, list |-> l, detail |-> d] :
        l \in {f \in [1..MaxPage -> UNION {ReplayLists(p) : p \in 1..MaxPage}] :
                 \A p \in 1..MaxPage : f[p] \in ReplayLists(p)},
        d \in {f \in [Ids -> UNION {ReplayDetails(i) : i \in Ids}] :
                 \A i \in Ids : f[i] \in ReplayDetails(i)}}

\* The script is started again (the job is scheduled periodically): a new
\* process, the same tables.
main_again ==
    /\ pc = "exit" /\ run < MaxRuns
    /\ run' = run + 1
    /\ previous' = [exit_code |-> exit_code, store |-> committed]
    /\ pc' = "config"
    /\ exit_code' = -1
    /\ error' = "none"
    /\ access_token' = "unset"
    /\ conn' = "none"
    /\ page' = 1
    /\ docs' = <<>>
    /\ page_ctx' = Absent
    /\ idx' = 0
    /\ full_doc' = NoDoc
    /\ total_inserted' = 0
    /\ sql' = NoSql
    /\ fetches' = <<>>
    /\ durable' = "none"
    /\ log' = <<>>
    /\ last_list' = "none"
    /\ UNCHANGED <<variant, doctype, api, committed, pending, write_failed>>

InitReplay == \E a \in PinnedApis : Start("bills", a)

NextReplay ==
    \/ main_config_bills
    \/ main_refresh_bills
    \/ main_connect_bills
    \/ main_create_tables_bills
    \/ fetch_all_bills_list
    \/ fetch_all_bills_detail
    \/ fetch_all_bills_insert_bill
    \/ fetch_all_bills_insert_line_items
    \/ fetch_all_bills_sleep
    \/ main_close_bills
    \/ main_again

SpecReplay == InitReplay /\ [][NextReplay]_vars

-----------------------------------------------------------------------------
(* Walk: the bills script against a server that holds pages 1..MaxWalkPages *)
(* and answers a request for one of them with that page, whatever its      *)
(* pagination metadata says.                                               *)

WalkDetails(id) ==
    {Http(500, Unparsable),
     Http(200, [json |-> "object", code |-> Some(0),
                doc |-> Some([id |-> id, billing_address |-> "KA",
                              shipping_address |-> "KA", line_items |-> Absent])])}
WalkLists(p) ==
    {Http(200, [json |-> "object", code |-> Some(0), coll |-> Some(l), page_context |-> c]) :
        l \in PageLists, c \in PageContexts(p)}
WalkApis ==
    {[pinned |-> TRUE, list |-> l, detail |-> d] :
        l \in {f \in [1..MaxWalkPages -> UNION {WalkLists(p) : p \in 1..MaxWalkPages}] :
                 \A p \in 1..MaxWalkPages : f[p] \in WalkLists(p)},
        d \in {f \in [Ids -> UNION {WalkDetails(i) : i \in Ids}] :
                 \A i \in Ids : f[i] \in WalkDetails(i)}}

InitWalk == \E a \in WalkApis : Start("bills", a) /\ committed = EmptyStore

NextWalk ==
    \/ main_config_bills
    \/ main_refresh_bills
    \/ main_connect_bills
    \/ main_create_tables_bills
    \/ fetch_all_bills_list
    \/ fetch_all_bills_detail
    \/ fetch_all_bills_insert_bill
    \/ fetch_all_bills_insert_line_items
    \/ fetch_all_bills_sleep
    \/ main_close_bills

\* Every request has a timeout and every statement returns or raises: a
\* process that can take a step takes one.
SpecWalk == InitWalk /\ [][NextWalk]_vars /\ WF_vars(NextWalk)


-----------------------------------------------------------------------------
(* Properties *)

\* The detail record of the current summary has no line items (the key is
\* missing or null, or the list is empty).
NoLineItems ==
    /\ full_doc.has
    /\ (~full_doc.v.line_items.has \/ full_doc.v.line_items.v = <<>>)

\* The line items the detail record of the current summary carries.
DetailItems == IF full_doc.v.line_items.has THEN full_doc.v.line_items.v ELSE <<>>

\* The row the current script stores for the detail record of the current summary.
DetailRow == IF variant = "bills" THEN bill_row(full_doc.v) ELSE invoice_row(full_doc.v)

\* The committed parent table holds that row for the current summary (as its
\* newest row where the table has no key).
ParentStored ==
    LET rows == committed.parent[doctype][full_doc.v.id] IN
    Len(rows) > 0 /\ rows[Len(rows)] = DetailRow

\* The committed line-item table holds the detail's line items for the current
\* summary: exactly them for Bills, as the newest rows where rows are only added.
ItemsStored ==
    LET rows == committed.items[doctype][CurId] IN
    IF variant = "bills" THEN rows = DetailItems
    ELSE /\ Len(rows) >= Len(DetailItems)
         /\ SubSeq(rows, Len(rows) - Len(DetailItems) + 1, Len(rows)) = DetailItems

\* A step that changes the tables (the rollback at process exit is no write).
StoreWritten == pc' # "exit" /\ (pending' # pending \/ committed' # committed)

\* ---- C1 ----
\* C1 as stated: in every run each summary returned on a list page gets
\* exactly one detail fetch; so when the process has ended, no summary of the
\* page it was working on is left without its fetch.  The runs looked at are
\* those that ended normally or by a write error (which final_script.py leaves
\* unhandled as a run-level error), so that a refutation does not rest on a
\* failure of the token, list or detail requests or of the mapping.
C1_EverySummaryFetchedOnce ==
    (pc = "exit" /\ error \in {"none", "write"})
        => \A i \in 1..Len(docs) : fetches[i] = 1

\* C1 amended: a summary never gets more than one detail fetch and gets exactly
\* one as soon as the loop has reached it (the summaries after the point where
\* a run is aborted get none); a table is written only for the summary being
\* processed, after its one fetch has returned a record.
C1_FetchOnceBeforeWrite ==
    /\ [](\A i \in 1..Len(docs) :
            fetches[i] = IF i < idx \/ (i = idx /\ pc # "detail") THEN 1 ELSE 0)
    /\ [](pc \in {"insert_doc", "insert_items"} \/ durable # "none" \/ sql # NoSql
            => idx \in 1..Len(docs) /\ fetches[idx] = 1 /\ full_doc.has)
    /\ [][StoreWritten =>
            /\ pc \in {"insert_doc", "insert_items"}
            /\ fetches[idx] = 1
            /\ full_doc.has /\ full_doc.v.id = CurId]_vars

\* C1 witness: the second summary of a page has been fetched once and written.
C1_Witness ==
    /\ pc = "sleep" /\ idx = 2 /\ fetches = <<1, 1>>
    /\ durable = "all" /\ full_doc.has /\ ParentStored

\* ---- C2 ----
\* Two successive invocations both ran to the end of the walk with every SQL
\* statement succeeding.
CompleteRuns ==
    /\ run >= 2 /\ pc = "exit" /\ exit_code = 0
    /\ previous.exit_code = 0 /\ ~write_failed

\* The bills the pinned server lists on its first page and serves a detail
\* record for.
Served ==
    {id \in Ids :
        /\ \E i \in DOMAIN api.list[1].body.coll.v : api.list[1].body.coll.v[i] = id
        /\ api.detail[id].status = 200 /\ api.detail[id].body.doc.has}

\* C2: replaying the bills pipeline against the same API data leaves the store
\* as the previous run left it: one Bills row per bill_id, and for every bill
\* served exactly the line items of its detail record, not accumulated.
C2_ReplayIdempotent ==
    CompleteRuns =>
        /\ committed = previous.store
        /\ \A id \in Ids : Len(committed.parent["bill"][id]) <= 1
        /\ \A id \in Served :
             LET bill == api.detail[id].body.doc.v IN
             /\ committed.parent["bill"][id] = <<bill_row(bill)>>
             /\ committed.items["bill"][id] =
                  (IF bill.line_items.has THEN bill.line_items.v ELSE <<>>)

\* C2 witness: two complete runs over two bills, one of them with two line items.
C2_Witness ==
    /\ CompleteRuns /\ total_inserted = 2 /\ Cardinality(Served) = 2
    /\ \E id \in Served : Len(committed.items["bill"][id]) = 2

C4_MissingTokenIsFatal ==
    (pc = "exit" /\ access_token = "None")
        => /\ exit_code # 0
           /\ (variant = "bills" => exit_code = 2)
           /\ conn = "none" /\ last_list = "none"

\* ---- C5 ----
\* C5: get_new_access_token never raises past its caller, neither on a
\* transport failure of the POST nor on a body that is not a JSON object.
C5_TokenProviderNeverRaises ==
    error \notin {"token_transport", "token_nonobject"}

\* ---- C6 ----
\* C6: a detail response whose body cannot be parsed skips that one document
\* and does not abort the run.
C6_DetailFailureIsolated ==
    error # "detail_unparsable"

\* ---- C7 ----
\* C7 as stated: the committed store never holds the parent row of a document
\* of the current run without that document's line items of the current run:
\* no state lies between the two.
C7_OneCommitPerDocument ==
    durable # "parent"

\* C7 amended: a document is committed in two steps.  insert_bill /
\* insert_invoice commits the parent row on its own, before any line-item
\* statement of the document is executed; the line items are committed by
\* insert_line_items.  Once insert_line_items has returned, row and line items
\* are both durable, before the next document is processed.
C7_ParentCommitsFirst ==
    /\ (pc = "insert_items" => durable = "parent")
    /\ (durable # "none" => full_doc.has /\ ParentStored)
    /\ (sql # NoSql => durable # "none")
    /\ (durable = "all" => ItemsStored /\ pc \in {"sleep", "exit"})

\* C7 witness: the parent row of a bill is durable while the line-item table still holds
\* what an earlier run stored.
C7_Witness ==
    /\ variant = "bills" /\ pc = "insert_items" /\ durable = "parent"
    /\ ParentStored
    /\ DetailItems # <<>>
    /\ committed.items["bill"][CurId] = StaleItems

\* ---- C8 ----
\* C8: a run ended by an exception after the connection was opened ends with a
\* non-zero exit status.
C8_RunErrorExitsNonZero ==
    (pc = "exit" /\ conn # "none" /\ error # "none") => exit_code # 0

\* ---- C9 ----
\* C9: extracting the state of an absent (missing or null) address never
\* raises.
C9_AddressStateNeverRaises ==
    error # "mapping"

\* ---- C10 ----
\* C10: when insert_line_items has returned for a document without line
\* items, no line-item INSERT was executed; for Bills the rows stored for that
\* bill_id are deleted and the deletion is committed; the line items of every
\* other document are as they were.
C10_EmptyLineItems ==
    /\ [](durable = "all" /\ NoLineItems
            => /\ sql.inserted = 0
               /\ (variant = "bills"
                     => /\ committed.items["bill"][CurId] = <<>>
                        /\ pending.items["bill"][CurId] = <<>>))
    /\ [][pc = "insert_items" /\ NoLineItems /\ durable' = "all"
            => /\ \A t \in DocTypes, i \in Ids :
                    (t # doctype \/ i # CurId)
                        => /\ committed'.items[t][i] = committed.items[t][i]
                           /\ pending'.items[t][i] = pending.items[t][i]
               /\ (variant = "invoices" => pending'.items = pending.items)]_vars

\* C10 witness: a bill without line items: stored rows were deleted, and another bill still
\* has its rows.
C10_Witness ==
    /\ variant = "bills" /\ durable = "all" /\ NoLineItems
    /\ sql.deleted > 0 /\ sql.inserted = 0
    /\ committed.items["bill"][CurId] = <<>>
    /\ \E i \in Ids : i # CurId /\ committed.items["bill"][i] # <<>>



\* ---- C11 ----
\* The summaries page p of the walked server holds, and its pagination metadata.
WalkPage(p) == api.list[p].body.coll.v
WalkCtx(p) == api.list[p].body.page_context

\* The last non-empty page of the walked server (0 when it holds none).
LastPage ==
    IF \A p \in DOMAIN api.list : WalkPage(p) = <<>> THEN 0
    ELSE CHOOSE p \in DOMAIN api.list :
            /\ WalkPage(p) # <<>>
            /\ \A q \in DOMAIN api.list : q > p => WalkPage(q) = <<>>

\* No empty page comes before a non-empty one.
NoGap == \A p \in 1..LastPage : WalkPage(p) # <<>>

\* The run has requested page p once and has issued one detail fetch for each
\* of its summaries.
Covered(p) ==
    /\ Cardinality({k \in 1..Len(log) : log[k].page = p}) = 1
    /\ \A k \in 1..Len(log) :
         log[k].page = p => log[k].fetches = [i \in 1..Len(WalkPage(p)) |-> 1]

C12_FailedWritesNeverDurable ==
    [][(variant = "bills" /\ pc \in {"insert_doc", "insert_items"}) =>
         \A i \in Ids \ {CurId} :
            committed'.items["bill"][i] = committed.items["bill"][i]]_vars


\* ---- C13 ----
\* C13: in the invoices/credit-notes variant a list response without its
\* collection key stops the page loop without raising.  The step that receives
\* it leaves the committed store as it is and raises nothing; after the
\* invoices it goes on to page 1 of the credit notes, after the credit notes
\* to the close of the connection; the walk never returns to the invoices, and
\* a run whose last list response was of that kind ends reported as completed
\* (no error, exit status 0).
C13_MissingKeyStopsQuietly ==
    /\ [][(variant = "invoices" /\ pc = "list"
           /\ last_list' \in {"nokey", "nokey_error"}) =>
            /\ committed' = committed
            /\ error' = "none" /\ exit_code' = exit_code
            /\ IF doctype = "invoice"
               THEN pc' = "list" /\ doctype' = "creditnote" /\ page' = 1
               ELSE pc' = "close" /\ doctype' = "creditnote"]_vars
    /\ [][doctype = "creditnote" => doctype' = "creditnote"]_vars
    /\ []((variant = "invoices" /\ last_list \in {"nokey", "nokey_error"}) =>
            /\ error = "none"
            /\ pc \in {"list", "close", "exit"}
            /\ (pc = "list" => doctype = "creditnote" /\ page = 1 /\ log = <<>>)
            /\ (pc = "exit" => exit_code = 0 /\ doctype = "creditnote"))

\* C13 witness: the invoices walk committed an invoice from page 1 and got
\* page 2 without the key; the run is now at page 1 of the credit notes with
\* the invoice still in the store.
C13_Witness ==
    /\ variant = "invoices" /\ last_list = "nokey_error"
    /\ pc = "list" /\ doctype = "creditnote" /\ page = 1
    /\ \E i \in Ids :
         /\ committed.parent["invoice"][i] # <<>>
         /\ committed.parent["invoice"][i][Len(committed.parent["invoice"][i])] # StaleRow

====
